---------------------------- MODULE Spec2Model ----------------------------
(***************************************************************************)
(* Model of src/src/pull_optionm_api_data.py: get_expiration_dates (the    *)
(* third-Friday generator with its shift-back loop) and                    *)
(* filter_index_implied_dividend_yield (remap, canonical filter, first two *)
(* rows per observation date).                                             *)
(*                                                                         *)
(* Dates are day numbers counted from 1970-01-01 (the epoch of a pandas    *)
(* Timestamp), so that adding pd.Timedelta(days=1) is + 1.  A table is a   *)
(* sequence of rows [idx, date, expiration]; idx is the DataFrame index    *)
(* label, which copy(), boolean selection and groupby().head() all keep.   *)
(***************************************************************************)
EXTENDS Integers, Sequences, FiniteSets

VARIABLES
    start_date,               \* argument start_date
    end_date,                 \* argument end_date
    holidays,                 \* closed weekdays of the market calendar (library data)
    pc,                       \* position in the code
    expiration_target_dates,  \* the list adjusted in place by the for loop
    market_open_set,          \* set(market_open)
    i,                        \* loop index of the for loop (1-based here)
    current_date,             \* candidate date of the while loop
    all_third_fridays,        \* value returned by get_expiration_dates
    df,                       \* the caller's table (never modified)
    df_,                      \* df.copy() with the expiration column replaced
    filtered_df,              \* filtered_df of the first call
    refiltered_df             \* result of calling the filter on its own output

vars == << start_date, end_date, holidays, pc, expiration_target_dates,
           market_open_set, i, current_date, all_third_fridays, df, df_,
           filtered_df, refiltered_df >>

---------------------------------------------------------------------------
(* Bounds of the model *)

\* longest table drawn as the fetch's result
MaxRows == 3

\* how many days below start_date the model follows a search that has left
\* the loaded calendar (the code itself goes on without limit)
MaxUnderrun == 12

---------------------------------------------------------------------------
(* Calendar arithmetic of pandas Timestamps (proleptic Gregorian) *)

\* days since 1970-01-01 of the civil date y-m-d
DaysFromCivil(y, m, d) ==
    LET yy  == IF m <= 2 THEN y - 1 ELSE y
        era == yy \div 400
        yoe == yy - era * 400
        mp  == (m + 9) % 12
        doy == (153 * mp + 2) \div 5 + d - 1
        doe == yoe * 365 + yoe \div 4 - yoe \div 100 + doy
    IN  era * 146097 + doe - 719468

\* [year, month, day] of day number z
CivilFromDays(z) ==
    LET zz  == z + 719468
        era == zz \div 146097
        doe == zz - era * 146097
        yoe == (doe - doe \div 1460 + doe \div 36524 - doe \div 146096) \div 365
        doy == doe - (365 * yoe + yoe \div 4 - yoe \div 100)
        mp  == (5 * doy + 2) \div 153
        d   == doy - (153 * mp + 2) \div 5 + 1
        m   == IF mp < 10 THEN mp + 3 ELSE mp - 9
        y   == yoe + era * 400 + (IF m <= 2 THEN 1 ELSE 0)
    IN  [year |-> y, month |-> m, day |-> d]

\* Timestamp.month
MonthOf(z) == CivilFromDays(z).month

\* Timestamp.weekday(): Monday = 0 ... Sunday = 6 (1970-01-01 was a Thursday)
Weekday(z) == (z + 3) % 7

\* freq="WOM-3FRI": the third Friday of its month
IsThirdFriday(z) == Weekday(z) = 4 /\ CivilFromDays(z).day \in 15..21

\* the expiration_months argument the filter passes
ExpirationMonths == {3, 6, 9, 12}

Range(s) == {s[k] : k \in DOMAIN s}

Min(S) == CHOOSE x \in S : \A y \in S : x <= y

Max(S) == CHOOSE x \in S : \A y \in S : x >= y

RECURSIVE SortedSeq(_)
\* the elements of a finite set of day numbers in ascending order
SortedSeq(S) == IF S = {} THEN << >> ELSE << Min(S) >> \o SortedSeq(S \ {Min(S)})

\* pd.date_range(start, end, freq="WOM-3FRI"): every third Friday in [start, end]
AllTargetDates(s, e) == {z \in s..e : IsThirdFriday(z)}

\* all_target_dates[all_target_dates.month.isin(expiration_months)].tolist()
ExpirationTargetDates(s, e) ==
    SortedSeq({z \in AllTargetDates(s, e) : MonthOf(z) \in ExpirationMonths})

\* valid_days(start_date, end_date) of a Monday-to-Friday calendar with the
\* given closed days, as a set
ValidDays(s, e, closed) == {z \in s..e : Weekday(z) < 5 /\ z \notin closed}

---------------------------------------------------------------------------
(* The table operations of filter_index_implied_dividend_yield *)

\* the pairs zipped the other way round: (third Friday, day after)
ReplaceValue_Swapped(v, atf) == IF v \in Range(atf) THEN v + 1 ELSE v

\* the pairs zipped one place out of step: the day after the j-th date is
\* mapped to the (j-1)-th date
ReplaceValue_Misaligned(v, atf) ==
    LET js == {j \in DOMAIN atf : j > 1 /\ atf[j] + 1 = v}
    IN  IF js = {} THEN v ELSE atf[Max(js) - 1]

\* dict(potential_expiration_dates) applied to one value: the pairs are
\* (all_third_fridays[j] + 1 day, all_third_fridays[j]); a later pair with
\* the same key overrides an earlier one; a value that is no key is kept
ReplaceValue(v, atf) ==
    LET js == {j \in DOMAIN atf : atf[j] + 1 = v}
    IN  IF js = {} THEN v ELSE atf[Max(js)]

\* df_["expiration"].replace(dict(potential_expiration_dates))
ReplaceExpiration(tbl, atf) ==
    [k \in DOMAIN tbl |->
        [tbl[k] EXCEPT !.expiration = ReplaceValue(tbl[k].expiration, atf)]]

\* one row of the mask df_["expiration"].isin(all_third_fridays.date)
IsIn(r, atf) == r.expiration \in Range(atf)

\* the mask is computed and not applied
SelectCanonical_Unfiltered(tbl, atf) == tbl

\* df_[df_["expiration"].isin(all_third_fridays.date)]
SelectCanonical(tbl, atf) == SelectSeq(tbl, LAMBDA r : IsIn(r, atf))

\* the rows numbered 1 and 2 of a date group, counting from 0
InHead_FromOne(tbl, k) ==
    Cardinality({j \in 1..(k - 1) : tbl[j].date = tbl[k].date}) \in {1, 2}

\* the row at position k is among the first two rows of its date group
InHead(tbl, k) == Cardinality({j \in 1..(k - 1) : tbl[j].date = tbl[k].date}) < 2

RECURSIVE KeepRows(_, _)
\* the rows of tbl at the positions of ks, in their order in tbl
KeepRows(tbl, ks) ==
    IF tbl = << >> THEN << >>
    ELSE KeepRows(SubSeq(tbl, 1, Len(tbl) - 1), ks)
         \o (IF Len(tbl) \in ks THEN << tbl[Len(tbl)] >> ELSE << >>)

\* head(2) of the whole table, without the groupby
GroupHead_Ungrouped(tbl) == SubSeq(tbl, 1, IF Len(tbl) < 2 THEN Len(tbl) ELSE 2)

\* filtered_df.groupby("date").head(2): the first two rows of every date,
\* in the order of the table
GroupHead(tbl) == KeepRows(tbl, {k \in DOMAIN tbl : InHead(tbl, k)})

RECURSIVE AdjustedDate(_, _)
\* the while loop of get_expiration_dates as a function, used where the loop
\* is known to end (some member of open is on or before z)
AdjustedDate(z, open) == IF z \in open THEN z ELSE AdjustedDate(z - 1, open)

\* get_expiration_dates(s, e, [3, 6, 9, 12]) as a function, for a call whose
\* searches all end
GetExpirationDates(s, e, closed) ==
    LET t == ExpirationTargetDates(s, e)
    IN  [k \in DOMAIN t |-> AdjustedDate(t[k], ValidDays(s, e, closed))]

\* one whole call of filter_index_implied_dividend_yield on tbl, given the
\* list its call of get_expiration_dates returns
FilterTable(tbl, atf) == GroupHead(SelectCanonical(ReplaceExpiration(tbl, atf), atf))

---------------------------------------------------------------------------
(* Inputs *)

Date(y, m, d) == DaysFromCivil(y, m, d)

\* start_date: a Monday before March 2008, and the third Friday of March
\* 2008 itself (Good Friday, a market holiday)
StartDates == {Date(2008, 2, 25), Date(2008, 3, 21)}

\* end_date: the third Friday of June 2008 (the range is inclusive)
EndDates == {Date(2008, 6, 20)}

FirstOfMonth(z) == z - CivilFromDays(z).day + 1

\* The closed weekdays the calendar library may hold for the range: none, or
\* one closure a..b that ends on a nominal expiration and starts on it, on
\* the Monday of its week, on the first of its month, or on the Monday after
\* the previous nominal expiration
HolidaySets(s, e) ==
    LET t      == Range(ExpirationTargetDates(s, e))
        starts == UNION {{n, n - 4, FirstOfMonth(n), n + 3} : n \in t}
    IN  {{}} \cup {{z \in a..b : Weekday(z) < 5} : a \in starts, b \in t}

\* the first third Friday of the range outside the expiration months
NonQuarterly(s, e) ==
    LET o == {z \in AllTargetDates(s, e) : MonthOf(z) \notin ExpirationMonths}
    IN  IF o = {} THEN {} ELSE {Min(o)}

\* expiration values of the vendor's rows: the canonical dates, their
\* day-after encodings, and a non-quarterly expiration
ExpirationValues(atf, s, e) ==
    Range(atf) \cup {d + 1 : d \in Range(atf)} \cup NonQuarterly(s, e)

\* observation dates of the vendor's rows (WHERE i.date BETWEEN start AND
\* end): the first day of the range and the day after the first canonical date
ObservationDates(atf, s, e) ==
    {s} \cup (IF atf # << >> /\ atf[1] + 1 <= e THEN {atf[1] + 1} ELSE {})

\* The tables the fetch can deliver: rows sorted by ascending date only
\* (ORDER BY date ASC), index 0 .. n-1
Tables(atf, s, e) ==
    LET D == ObservationDates(atf, s, e)
        X == ExpirationValues(atf, s, e)
    IN  UNION {
          {[k \in 1..n |-> [idx |-> k - 1, date |-> f[k][1], expiration |-> f[k][2]]] :
              f \in {g \in [1..n -> D \X X] :
                        \A k \in 1..(n - 1) : g[k][1] <= g[k + 1][1]}}
          : n \in 0..MaxRows}

---------------------------------------------------------------------------
(* The program *)

Init ==
    /\ start_date \in StartDates
    /\ end_date \in EndDates
    /\ holidays \in HolidaySets(start_date, end_date)
    /\ pc = "call"
    /\ expiration_target_dates = << >>
    /\ market_open_set = {}
    /\ i = 0
    /\ current_date = 0
    /\ all_third_fridays = << >>
    /\ df = << >>
    /\ df_ = << >>
    /\ filtered_df = << >>
    /\ refiltered_df = << >>

\* get_expiration_dates up to the for loop: the third Fridays of the
\* expiration months in the range, and the set of the calendar's valid days
TargetDates ==
    /\ pc = "call"
    /\ expiration_target_dates' = ExpirationTargetDates(start_date, end_date)
    /\ market_open_set' = ValidDays(start_date, end_date, holidays)
    /\ i' = 1
    /\ pc' = "for"
    /\ UNCHANGED << start_date, end_date, holidays, current_date,
                    all_third_fridays, df, df_, filtered_df, refiltered_df >>

\* for i in range(len(expiration_target_dates)): current_date = ...[i]
ForNext ==
    /\ pc = "for"
    /\ i <= Len(expiration_target_dates)
    /\ current_date' = expiration_target_dates[i]
    /\ pc' = "while"
    /\ UNCHANGED << start_date, end_date, holidays, expiration_target_dates,
                    market_open_set, i, all_third_fridays, df, df_,
                    filtered_df, refiltered_df >>

\* one pass of the while body: current_date -= pd.Timedelta(days=1).  The
\* code has no bound; the model stops following a search MaxUnderrun days
\* below start_date, where no member of market_open_set can be left
ShiftBack ==
    /\ pc = "while"
    /\ current_date \notin market_open_set
    /\ current_date > start_date - MaxUnderrun
    /\ current_date' = current_date - 1
    /\ UNCHANGED << start_date, end_date, holidays, pc,
                    expiration_target_dates, market_open_set, i,
                    all_third_fridays, df, df_, filtered_df, refiltered_df >>

\* the while condition is false: expiration_target_dates[i] = current_date
Update ==
    /\ pc = "while"
    /\ current_date \in market_open_set
    /\ expiration_target_dates' =
           [expiration_target_dates EXCEPT ![i] = current_date]
    /\ i' = i + 1
    /\ pc' = "for"
    /\ UNCHANGED << start_date, end_date, holidays, market_open_set,
                    current_date, all_third_fridays, df, df_, filtered_df,
                    refiltered_df >>

\* return expiration_target_dates, received by the filter as
\* all_third_fridays
Return ==
    /\ pc = "for"
    /\ i > Len(expiration_target_dates)
    /\ all_third_fridays' = expiration_target_dates
    /\ pc' = "replace"
    /\ UNCHANGED << start_date, end_date, holidays, expiration_target_dates,
                    market_open_set, i, current_date, df, df_, filtered_df,
                    refiltered_df >>

\* df_ = df.copy() and the replace of its expiration column.  The copy is
\* the first statement of the filter; the call of get_expiration_dates
\* between it and the replace neither reads nor writes the table, so the
\* table argument is drawn in the step that first reads it
Replace ==
    /\ pc = "replace"
    /\ \E tbl \in Tables(all_third_fridays, start_date, end_date) :
          /\ df' = tbl
          /\ df_' = ReplaceExpiration(tbl, all_third_fridays)
    /\ pc' = "isin"
    /\ UNCHANGED << start_date, end_date, holidays, expiration_target_dates,
                    market_open_set, i, current_date, all_third_fridays,
                    filtered_df, refiltered_df >>

\* filtered_df = df_[df_["expiration"].isin(all_third_fridays.date)]
Select ==
    /\ pc = "isin"
    /\ filtered_df' = SelectCanonical(df_, all_third_fridays)
    /\ pc' = "head"
    /\ UNCHANGED << start_date, end_date, holidays, expiration_target_dates,
                    market_open_set, i, current_date, all_third_fridays, df,
                    df_, refiltered_df >>

\* filtered_df = filtered_df.groupby("date").head(2); return filtered_df
HeadTwo ==
    /\ pc = "head"
    /\ filtered_df' = GroupHead(filtered_df)
    /\ pc' = "done"
    /\ UNCHANGED << start_date, end_date, holidays, expiration_target_dates,
                    market_open_set, i, current_date, all_third_fridays, df,
                    df_, refiltered_df >>

\* a second call of the filter, on the table the first call returned, with
\* the same start_date, end_date and calendar
Refilter ==
    /\ pc = "done"
    /\ refiltered_df' =
           FilterTable(filtered_df,
                       GetExpirationDates(start_date, end_date, holidays))
    /\ pc' = "redone"
    /\ UNCHANGED << start_date, end_date, holidays, expiration_target_dates,
                    market_open_set, i, current_date, all_third_fridays, df,
                    df_, filtered_df >>

Next ==
    \/ TargetDates
    \/ ForNext
    \/ ShiftBack
    \/ Update
    \/ Return
    \/ Replace
    \/ Select
    \/ HeadTwo
    \/ Refilter

Spec == Init /\ [][Next]_vars

---------------------------------------------------------------------------
(* Vocabulary of the properties *)

\* the canonical set the first call received
Canonical == Range(all_third_fridays)

\* the nominal third Fridays of the expiration months in the range
Nominal == ExpirationTargetDates(start_date, end_date)

\* get_expiration_dates has returned
Returned == pc \in {"replace", "isin", "head", "done", "redone"}

\* the filter has returned filtered_df
Filtered == pc \in {"done", "redone"}

\* the row of table tbl with index label x
RowOf(tbl, x) == tbl[CHOOSE k \in DOMAIN tbl : tbl[k].idx = x]

Labels(tbl) == {tbl[k].idx : k \in DOMAIN tbl}

\* index labels of the rows of df_ that pass the canonical filter
Survivors == {df_[k].idx : k \in {j \in DOMAIN df_ : df_[j].expiration \in Canonical}}

\* number of rows of tbl observed on date d
CountOn(tbl, d) == Cardinality({k \in DOMAIN tbl : tbl[k].date = d})

\* the input row was written in the day-after encoding of a canonical date
IsDayAfter(r) == \E c \in Canonical : r.expiration = c + 1

---------------------------------------------------------------------------
(* C1 *)

\* C1: every row the filter returns has an expiration that is a member of
\* the list get_expiration_dates(start_date, end_date, [3, 6, 9, 12])
\* returned, and therefore a valid day of the trading calendar.
C1_OutputExpirationCanonical ==
    Filtered =>
        \A k \in DOMAIN filtered_df :
            /\ filtered_df[k].expiration \in Canonical
            /\ filtered_df[k].expiration \in market_open_set

\* reached: the filter returned a row and dropped another, and a canonical
\* date was moved off its nominal third Friday
C1_Witness ==
    /\ pc = "done"
    /\ filtered_df # << >>
    /\ Len(filtered_df) < Len(df)
    /\ \E k \in DOMAIN all_third_fridays : all_third_fridays[k] # Nominal[k]

---------------------------------------------------------------------------
(* C2 *)

\* C2: a row whose expiration is D + 1 for a canonical date D is rewritten
\* to D, passes the canonical filter, and is missing from the result only
\* when two earlier rows of its date were kept; any other row keeps its
\* expiration in df_.  No other field of a row changes.
C2_RemapCorrect ==
    pc \in {"isin", "head", "done", "redone"} =>
        /\ Len(df_) = Len(df)
        /\ \A k \in DOMAIN df :
            /\ df_[k].idx = df[k].idx
            /\ df_[k].date = df[k].date
            /\ IF IsDayAfter(df[k])
               THEN /\ df_[k].expiration = df[k].expiration - 1
                    /\ df_[k].expiration \in Canonical
                    /\ pc = "head" => df[k].idx \in Labels(filtered_df)
                    /\ Filtered =>
                         \/ df[k].idx \in Labels(filtered_df)
                         \/ Cardinality({j \in DOMAIN filtered_df :
                                /\ filtered_df[j].date = df[k].date
                                /\ filtered_df[j].idx < df[k].idx}) = 2
               ELSE df_[k].expiration = df[k].expiration

\* reached: the result holds a row that came in as D + 1 and a row that
\* kept its expiration, and a day-after row was cut by the two-row limit
C2_Witness ==
    /\ pc = "done"
    /\ \E k \in DOMAIN df :
          IsDayAfter(df[k]) /\ df[k].idx \in Labels(filtered_df)
    /\ \E k \in DOMAIN df :
          ~IsDayAfter(df[k]) /\ df[k].idx \in Labels(filtered_df)
    /\ \E k \in DOMAIN df :
          IsDayAfter(df[k]) /\ df[k].idx \notin Labels(filtered_df)

---------------------------------------------------------------------------
(* C3 *)

\* C3: for every observation date the result holds min(2, n) rows of that
\* date, n being the number of rows of df_ of that date with a canonical
\* expiration; the rows of the result are rows of df_ and stand in their
\* input order.
C3_TwoPerDate ==
    Filtered =>
        /\ \A d \in {df_[k].date : k \in DOMAIN df_} :
              LET n == Cardinality({k \in DOMAIN df_ :
                           df_[k].date = d /\ df_[k].expiration \in Canonical})
              IN  CountOn(filtered_df, d) = IF n >= 2 THEN 2 ELSE n
        /\ \A k \in DOMAIN filtered_df :
              /\ filtered_df[k].idx \in Survivors
              /\ filtered_df[k] = RowOf(df_, filtered_df[k].idx)
        /\ \A j, k \in DOMAIN filtered_df :
              j < k => filtered_df[j].idx < filtered_df[k].idx

\* reached: one date has three canonical rows and keeps two, another date
\* has a single canonical row and keeps it
C3_Witness ==
    /\ pc = "done"
    /\ \E d \in {df_[k].date : k \in DOMAIN df_} :
          /\ Cardinality({k \in DOMAIN df_ :
                 df_[k].date = d /\ df_[k].expiration \in Canonical}) = 3
          /\ CountOn(filtered_df, d) = 2
    /\ Len(df) = 3

---------------------------------------------------------------------------
(* C4 *)

\* C4: the rows kept for an observation date are its two earliest
\* maturities among the rows that pass the canonical filter: no dropped
\* surviving row of the date expires before a kept row of the date, and two
\* kept rows of one date have different expirations.
C4_TwoEarliestMaturities ==
    Filtered =>
        /\ \A k \in DOMAIN filtered_df : \A x \in Survivors \ Labels(filtered_df) :
              RowOf(df_, x).date = filtered_df[k].date
                  => RowOf(df_, x).expiration >= filtered_df[k].expiration
        /\ \A j, k \in DOMAIN filtered_df :
              (j # k /\ filtered_df[j].date = filtered_df[k].date)
                  => filtered_df[j].expiration # filtered_df[k].expiration

---------------------------------------------------------------------------
(* C5 *)

---------------------------------------------------------------------------
(* C6 *)

\* every row of the input table expires on or after its observation date
InputNotExpired == \A k \in DOMAIN df : df[k].expiration >= df[k].date

\* C6 as stated: if every input row expires on or after its observation
\* date, so does every row of the result.
C6_OutputNotExpired ==
    (Filtered /\ InputNotExpired) =>
        \A k \in DOMAIN filtered_df :
            filtered_df[k].expiration >= filtered_df[k].date

\* C6 amended: if every input row expires on or after its observation date,
\* every row of the result does too, except a row observed on the very day
\* of its day-after expiration D + 1, which leaves with the canonical
\* expiration D, one day before its observation date.
C6_OutputNotExpiredUnlessObservedDayAfter ==
    (Filtered /\ InputNotExpired) =>
        \A k \in DOMAIN filtered_df :
            \/ filtered_df[k].expiration >= filtered_df[k].date
            \/ /\ RowOf(df, filtered_df[k].idx).expiration = filtered_df[k].date
               /\ filtered_df[k].expiration = filtered_df[k].date - 1
               /\ filtered_df[k].expiration \in Canonical

\* reached: the input meets the precondition, and the result holds a
\* remapped row that still expires after its date and a row observed on its
\* day-after date
C6_Witness ==
    /\ pc = "done"
    /\ InputNotExpired
    /\ \E k \in DOMAIN filtered_df :
          /\ RowOf(df, filtered_df[k].idx).expiration = filtered_df[k].expiration + 1
          /\ filtered_df[k].expiration > filtered_df[k].date
    /\ \E k \in DOMAIN filtered_df :
          filtered_df[k].expiration = filtered_df[k].date - 1

---------------------------------------------------------------------------
(* C7 *)

\* C7: the filter applied to its own result, with the same range and
\* calendar, returns that result: the same rows with the same expirations.
C7_Idempotent == pc = "redone" => refiltered_df = filtered_df

\* reached: the second call ran on a result of at least two rows, one of
\* them remapped by the first call, which also dropped a row
C7_Witness ==
    /\ pc = "redone"
    /\ Len(filtered_df) >= 2
    /\ Len(filtered_df) < Len(df)
    /\ \E k \in DOMAIN filtered_df :
          RowOf(df, filtered_df[k].idx).expiration # filtered_df[k].expiration

---------------------------------------------------------------------------
(* C8 *)

---------------------------------------------------------------------------
(* C9 *)

\* C9: get_expiration_dates returns one date for every nominal third Friday
\* of an expiration month in the range, each at most 4 calendar days before
\* it and in its month; so every search for a date stays within 4 days of
\* its nominal date and always has a valid day on or before its candidate.
C9_OnePerMonthWithinFourDays ==
    /\ pc = "while" =>
          /\ expiration_target_dates[i] - current_date <= 4
          /\ \E z \in market_open_set : z <= current_date
    /\ Returned =>
          /\ Len(all_third_fridays) = Len(Nominal)
          /\ \A k \in DOMAIN all_third_fridays :
                /\ Nominal[k] - all_third_fridays[k] \in 0..4
                /\ MonthOf(all_third_fridays[k]) = MonthOf(Nominal[k])

---------------------------------------------------------------------------
(* C10 *)

\* C10: a shift-back search that can no longer succeed, because no valid
\* day is on or before the candidate, has taken at most 10 one-day steps
\* (and then fails) instead of going on.
C10_ShiftBackBounded ==
    (pc = "while" /\ \A z \in market_open_set : z > current_date)
        => expiration_target_dates[i] - current_date <= 10

===========================================================================
